---- MODULE Spec2Model ----
(***************************************************************************)
(* relay-pagination-directive: the cursor codec (encodeCursor and          *)
(* decodeCursor) and the windowing function connectionFromArray of         *)
(* helpers.js, and the schema transformer and the wrapping resolver of     *)
(* connectionDirective.js.                                                 *)
(*                                                                         *)
(* JavaScript values are tagged records of one shape, so that any two of   *)
(* them can be compared.  A string is the sequence of its code points; a   *)
(* cursor is the string of base64 characters Buffer produces.              *)
(***************************************************************************)
EXTENDS Integers, Sequences, FiniteSets

VARIABLES
    pc,               \* position of the run: which call has been made
    typeName,         \* codec: the typeName argument of encodeCursor
    id,               \* codec: the id argument of encodeCursor
    cursor,           \* codec: the cursor handed to decodeCursor
    decoded,          \* codec: what decodeCursor returned or threw
    baseType,         \* connectionFromArray: the baseType argument
    arrayItems0,      \* the item list as it was handed in (history)
    arrayItems,       \* the item list; its objects are mutated by the call
    first,            \* args.first
    after,            \* args.after
    config,           \* the 4th argument: paginationMode, edgeProps, ...
    pageInfoPartial,  \* the 5th argument
    connectionProps,  \* the 6th argument
    result,           \* what connectionFromArray returned or threw
    schema,           \* directive: the schema handed to the transformer
    options,          \* directive: the parsed typeOptionsMap, shared by all
                      \* wrappers and written by them
    options0,         \* the typeOptionsMap as it was configured (history)
    transformed,      \* what the last transformer call built
    calls             \* the resolutions of tagged fields, oldest first

vars == <<pc, typeName, id, cursor, decoded, baseType, arrayItems0, arrayItems,
          first, after, config, pageInfoPartial, connectionProps, result,
          schema, options, options0, transformed, calls>>

codecVars == <<typeName, id, cursor, decoded>>
connVars == <<baseType, arrayItems0, arrayItems, first, after, config,
              pageInfoPartial, connectionProps, result>>
directiveVars == <<schema, options, options0, transformed, calls>>

-----------------------------------------------------------------------------
(* Bounds of the model.                                                    *)

\* longest typeName / id string drawn for the codec
MaxLen == 2
\* longest item list handed to connectionFromArray
MaxItems == 3
\* largest value of args.first
MaxFirst == 4
\* the item list is a window of the table starting at row 1..MaxStart
MaxStart == 2
\* at most this many of the optional inputs are supplied in one call
MaxOptions == 2

-----------------------------------------------------------------------------
(* JavaScript values.                                                      *)

Undef == [t |-> "undefined", s |-> <<>>, n |-> 0]
Null == [t |-> "null", s |-> <<>>, n |-> 0]
Str(s) == [t |-> "string", s |-> s, n |-> 0]
Num(n) == [t |-> "number", s |-> <<>>, n |-> n]
Bool(b) == [t |-> "boolean", s |-> <<>>, n |-> IF b THEN 1 ELSE 0]
\* a function value, named by what it computes
Fn(name) == [t |-> "function", s |-> name, n |-> 0]

\* typeof v: null and arrays are objects
TypeOf(v) == IF v.t \in {"null", "array"} THEN "object" ELSE v.t

\* !!v
Truthy(v) ==
    CASE v.t = "undefined" -> FALSE
      [] v.t = "null" -> FALSE
      [] v.t = "string" -> v.s # <<>>
      [] v.t = "number" -> v.n # 0
      [] v.t = "boolean" -> v.n = 1
      [] OTHER -> TRUE

\* a ?? b
Nullish(v) == v.t \in {"undefined", "null"}
Coalesce(a, b) == IF Nullish(a) THEN b ELSE a

\* the decimal digits of a natural number, as code points
RECURSIVE Digits(_)
Digits(n) ==
    IF n < 10 THEN <<48 + n>> ELSE Digits(n \div 10) \o <<48 + (n % 10)>>

\* code points of the words a template literal writes for non-strings
sUndefined == <<117, 110, 100, 101, 102, 105, 110, 101, 100>>
sNull == <<110, 117, 108, 108>>
sTrue == <<116, 114, 117, 101>>
sFalse == <<102, 97, 108, 115, 101>>

\* `${v}`: the string form of a value
StringOf(v) ==
    CASE v.t = "string" -> v.s
      [] v.t = "number" ->
           IF v.n < 0 THEN <<45>> \o Digits(0 - v.n) ELSE Digits(v.n)
      [] v.t = "undefined" -> sUndefined
      [] v.t = "null" -> sNull
      [] v.t = "boolean" -> IF v.n = 1 THEN sTrue ELSE sFalse
      [] OTHER -> <<>>

Colon == 58

-----------------------------------------------------------------------------
(* Buffer.from(string) and buffer.toString('utf-8'): UTF-8.                *)

Replacement == 65533

RECURSIVE Utf8Encode(_)
Utf8Encode(s) ==
    IF s = <<>> THEN <<>>
    ELSE LET c == Head(s)
             b == IF c < 128 THEN <<c>>
                  ELSE IF c < 2048 THEN <<192 + (c \div 64), 128 + (c % 64)>>
                  ELSE <<224 + (c \div 4096), 128 + ((c \div 64) % 64),
                         128 + (c % 64)>>
         IN  b \o Utf8Encode(Tail(s))

IsCont(b) == b >= 128 /\ b <= 191

\* an ill-formed byte decodes to U+FFFD
RECURSIVE Utf8Decode(_)
Utf8Decode(b) ==
    IF b = <<>> THEN <<>>
    ELSE LET h == Head(b)
             n == Len(b)
         IN  IF h < 128 THEN <<h>> \o Utf8Decode(Tail(b))
             ELSE IF h >= 194 /\ h <= 223 /\ n >= 2 /\ IsCont(b[2])
               THEN <<(h - 192) * 64 + (b[2] - 128)>>
                    \o Utf8Decode(SubSeq(b, 3, n))
             ELSE IF h >= 224 /\ h <= 239 /\ n >= 3 /\ IsCont(b[2])
                     /\ IsCont(b[3])
                     /\ (h = 224 => b[2] >= 160)
                     /\ (h = 237 => b[2] <= 159)
               THEN <<(h - 224) * 4096 + (b[2] - 128) * 64 + (b[3] - 128)>>
                    \o Utf8Decode(SubSeq(b, 4, n))
             ELSE <<Replacement>> \o Utf8Decode(Tail(b))

-----------------------------------------------------------------------------
(* buffer.toString('base64') and Buffer.from(string, 'base64').            *)

Pad == 61

\* the character of a 6-bit value
B64Char(i) ==
    IF i < 26 THEN 65 + i
    ELSE IF i < 52 THEN 71 + i
    ELSE IF i < 62 THEN i - 4
    ELSE IF i = 62 THEN 43 ELSE 47

\* the 6-bit value of a character, -1 for a character outside the alphabet
B64Index(c) ==
    IF c >= 65 /\ c <= 90 THEN c - 65
    ELSE IF c >= 97 /\ c <= 122 THEN c - 71
    ELSE IF c >= 48 /\ c <= 57 THEN c + 4
    ELSE IF c = 43 \/ c = 45 THEN 62
    ELSE IF c = 47 \/ c = 95 THEN 63
    ELSE -1

RECURSIVE Base64Encode(_)
Base64Encode(b) ==
    LET n == Len(b)
    IN  IF n = 0 THEN <<>>
        ELSE IF n = 1 THEN
          <<B64Char(b[1] \div 4), B64Char((b[1] % 4) * 16), Pad, Pad>>
        ELSE IF n = 2 THEN
          <<B64Char(b[1] \div 4),
            B64Char((b[1] % 4) * 16 + (b[2] \div 16)),
            B64Char((b[2] % 16) * 4), Pad>>
        ELSE
          <<B64Char(b[1] \div 4),
            B64Char((b[1] % 4) * 16 + (b[2] \div 16)),
            B64Char((b[2] % 16) * 4 + (b[3] \div 64)),
            B64Char(b[3] % 64)>> \o Base64Encode(SubSeq(b, 4, n))

\* the 6-bit values of the characters before the first '=', characters
\* outside the alphabet skipped
RECURSIVE Sextets(_)
Sextets(c) ==
    IF c = <<>> \/ Head(c) = Pad THEN <<>>
    ELSE IF B64Index(Head(c)) < 0 THEN Sextets(Tail(c))
    ELSE <<B64Index(Head(c))>> \o Sextets(Tail(c))

\* the whole bytes of a run of 6-bit values; left-over bits are dropped
RECURSIVE SextetBytes(_)
SextetBytes(x) ==
    LET n == Len(x)
    IN  IF n < 2 THEN <<>>
        ELSE IF n = 2 THEN <<x[1] * 4 + (x[2] \div 16)>>
        ELSE IF n = 3 THEN
          <<x[1] * 4 + (x[2] \div 16), (x[2] % 16) * 16 + (x[3] \div 4)>>
        ELSE
          <<x[1] * 4 + (x[2] \div 16), (x[2] % 16) * 16 + (x[3] \div 4),
            (x[3] % 4) * 64 + x[4]>> \o SextetBytes(SubSeq(x, 5, n))

Base64Decode(c) == SextetBytes(Sextets(c))

-----------------------------------------------------------------------------
(* The cursor codec.                                                       *)

\* Buffer.from(`${typeName}:${id}`).toString('base64')
EncodeCursor(tn, i) ==
    Str(Base64Encode(Utf8Encode(StringOf(tn) \o <<Colon>> \o StringOf(i))))

\* text.split(':'): the pieces between the colons
RECURSIVE Split(_)
Split(s) ==
    IF \A k \in 1..Len(s) : s[k] # Colon THEN <<s>>
    ELSE LET k == CHOOSE j \in 1..Len(s) :
                    s[j] = Colon /\ \A m \in 1..(j - 1) : s[m] # Colon
         IN  <<SubSeq(s, 1, k - 1)>> \o Split(SubSeq(s, k + 1, Len(s)))

\* parts[k] of an array of strings: undefined past its end
At(parts, k) == IF k <= Len(parts) THEN Str(parts[k]) ELSE Undef

Thrown(msg) == [kind |-> "throw", message |-> msg]

\* decodeCursor with the two parts taken in the wrong order
DecodeCursorSwapped(c) ==
    LET parts == Split(Utf8Decode(Base64Decode(c.s)))
        tn == At(parts, 2)
        i == At(parts, 1)
    IN  IF ~Truthy(tn) \/ ~Truthy(i)
        THEN Thrown("Invalid cursor provided")
        ELSE [kind |-> "return", typeName |-> tn, id |-> i]

\* decodeCursor checking the type name only
DecodeCursorNoIdCheck(c) ==
    LET parts == Split(Utf8Decode(Base64Decode(c.s)))
        tn == At(parts, 1)
        i == At(parts, 2)
    IN  IF ~Truthy(tn)
        THEN Thrown("Invalid cursor provided")
        ELSE [kind |-> "return", typeName |-> tn, id |-> i]

\* decodeCursor(cursor)
DecodeCursor(c) ==
    LET parts == Split(Utf8Decode(Base64Decode(c.s)))
        tn == At(parts, 1)
        i == At(parts, 2)
    IN  IF ~Truthy(tn) \/ ~Truthy(i)
        THEN Thrown("Invalid cursor provided")
        ELSE [kind |-> "return", typeName |-> tn, id |-> i]

-----------------------------------------------------------------------------
(* Objects.  An object is a function from the names of its own properties  *)
(* to their values; an item of arrayItems is one object per position.      *)

\* obj[p]: undefined for a property the object does not have
Get(obj, p) == IF p \in DOMAIN obj THEN obj[p] ELSE Undef

\* a delete that removes nothing
DeleteNothing(obj, p) == obj

\* delete obj[p]
Delete(obj, p) == [q \in (DOMAIN obj) \ {p} |-> obj[q]]

\* a spread in which the properties written first win
SpreadUnder(a, b) ==
    [q \in (DOMAIN a) \cup (DOMAIN b) |-> IF q \in DOMAIN a THEN a[q] ELSE b[q]]

\* {...a, ...b}: b's properties over a's
Spread(a, b) ==
    [q \in (DOMAIN a) \cup (DOMAIN b) |-> IF q \in DOMAIN b THEN b[q] ELSE a[q]]

EmptyObj == [q \in {} |-> Undef]

\* an object or array held as a value; keys is the order of its own keys
\* (an array's elements), o its properties
Obj(keys, o) == [t |-> "object", keys |-> keys, o |-> o]
Arr(elems) == [t |-> "array", keys |-> elems, o |-> EmptyObj]

\* the elements of a set in some order
RECURSIVE SeqOf(_)
SeqOf(S) ==
    IF S = {} THEN <<>>
    ELSE LET x == CHOOSE y \in S : TRUE IN <<x>> \o SeqOf(S \ {x})

\* the object value with the properties o
ObjOf(o) == Obj(SeqOf(DOMAIN o), o)

\* the spelling of the names and type texts of the runs: property names,
\* type and field names of the schema, and the characters of type texts
NameChars(p) ==
    CASE p = "id" -> <<105, 100>>
      [] p = "otherId" -> <<111, 116, 104, 101, 114, 73, 100>>
      [] p = "name" -> <<110, 97, 109, 101>>
      [] p = "0" -> <<48>>
      [] p = "1" -> <<49>>
      [] p = "prefix" -> <<112, 114, 101, 102, 105, 120>>
      [] p = "totalCount" -> <<116, 111, 116, 97, 108, 67, 111, 117, 110, 116>>
      [] p = "Film" -> <<70, 105, 108, 109>>
      [] p = "Person" -> <<80, 101, 114, 115, 111, 110>>
      [] p = "PersonFilm" -> <<80, 101, 114, 115, 111, 110, 70, 105, 108, 109>>
      [] p = "StudioFilm" -> <<83, 116, 117, 100, 105, 111, 70, 105, 108, 109>>
      [] p = "!" -> <<33>>
      [] p = "!]!" -> <<33, 93, 33>>
      [] p = "." -> <<46>>
      [] p = "Boolean" -> <<66, 111, 111, 108, 101, 97, 110>>
      [] p = "Connection" -> <<67, 111, 110, 110, 101, 99, 116, 105, 111, 110>>
      [] p = "Edge" -> <<69, 100, 103, 101>>
      [] p = "ID" -> <<73, 68>>
      [] p = "Int" -> <<73, 110, 116>>
      [] p = "Int!" -> <<73, 110, 116, 33>>
      [] p = "PageInfo" -> <<80, 97, 103, 101, 73, 110, 102, 111>>
      [] p = "Query" -> <<81, 117, 101, 114, 121>>
      [] p = "String" -> <<83, 116, 114, 105, 110, 103>>
      [] p = "URL" -> <<85, 82, 76>>
      [] p = "[" -> <<91>>
      [] p = "]" -> <<93>>
      [] p = "abc" -> <<97, 98, 99>>
      [] p = "after" -> <<97, 102, 116, 101, 114>>
      [] p = "cursor" -> <<99, 117, 114, 115, 111, 114>>
      [] p = "edges" -> <<101, 100, 103, 101, 115>>
      [] p = "endCursor" -> <<101, 110, 100, 67, 117, 114, 115, 111, 114>>
      [] p = "films" -> <<102, 105, 108, 109, 115>>
      [] p = "first" -> <<102, 105, 114, 115, 116>>
      [] p = "foo" -> <<102, 111, 111>>
      [] p = "hasNextPage" -> <<104, 97, 115, 78, 101, 120, 116, 80, 97, 103, 101>>
      [] p = "hasPreviousPage" -> <<104, 97, 115, 80, 114, 101, 118, 105, 111, 117, 115, 80, 97, 103, 101>>
      [] p = "node" -> <<110, 111, 100, 101>>
      [] p = "pageInfo" -> <<112, 97, 103, 101, 73, 110, 102, 111>>
      [] p = "people" -> <<112, 101, 111, 112, 108, 101>>
      [] p = "person" -> <<112, 101, 114, 115, 111, 110>>
      [] p = "startCursor" -> <<115, 116, 97, 114, 116, 67, 117, 114, 115, 111, 114>>
      [] p = "type" -> <<116, 121, 112, 101>>
      [] p = "User" -> <<85, 115, 101, 114>>
      [] p = "bar" -> <<98, 97, 114>>
      [] p = "baz" -> <<98, 97, 122>>
      [] p = "simple" -> <<115, 105, 109, 112, 108, 101>>
      [] OTHER -> <<>>

PropNames ==
    {"id", "otherId", "name", "0", "1", "prefix", "totalCount", "Film",
     "Person", "PersonFilm", "StudioFilm"}

\* the string value naming property p, and the property a string names
PropStr(p) == Str(NameChars(p))
PropOf(v) ==
    IF \E p \in PropNames : NameChars(p) = v.s
    THEN CHOOSE p \in PropNames : NameChars(p) = v.s
    ELSE "?"

\* Object.keys(v): an array's keys are its indexes
IndexName(k) == IF k = 0 THEN "0" ELSE "1"
ObjectKeys(v) ==
    IF v.t = "array" THEN [k \in 1..Len(v.keys) |-> IndexName(k - 1)]
    ELSE v.keys

-----------------------------------------------------------------------------
(* connectionFromArray.                                                    *)

\* PAGINATION_MODE
PAGINATION_MODE == [SIMPLE |-> Str(NameChars("simple")), EDGES |-> Str(NameChars("edges"))]

\* a destructuring default: used for undefined only
Default(v, d) == IF v.t = "undefined" THEN d ELSE v

\* the 4th parameter's pattern: { paginationMode = EDGES, edgeProps,
\* encodeCursor = true, cursorPropOrFn = 'id' } = {}
ConfigOf(cfg) ==
    LET c == IF cfg.t = "undefined" THEN EmptyObj ELSE cfg.o
    IN  [paginationMode |-> Default(Get(c, "paginationMode"),
                                    PAGINATION_MODE.EDGES),
         edgeProps |-> Get(c, "edgeProps"),
         encodeCursor |-> Default(Get(c, "encodeCursor"), Bool(TRUE)),
         cursorPropOrFn |-> Default(Get(c, "cursorPropOrFn"), PropStr("id"))]

\* a slice that takes one item too many
SliceOneMore(items, f) ==
    LET n == Len(items)
        end == CASE f.t = "undefined" -> n
                 [] f.t = "number" -> IF f.n + 1 < n THEN f.n + 1 ELSE n
                 [] OTHER -> 0
    IN  SubSeq(items, 1, end)

\* arrayItems.slice(0, first): undefined takes the whole list, null reads
\* as 0, a negative end counts from the end of the list
Slice(items, f) ==
    LET n == Len(items)
        end == CASE f.t = "undefined" -> n
                 [] f.t = "number" ->
                      IF f.n < 0 THEN (IF n + f.n < 0 THEN 0 ELSE n + f.n)
                      ELSE IF f.n < n THEN f.n ELSE n
                 [] OTHER -> 0
    IN  SubSeq(items, 1, end)

\* arrayItems.length === first
LengthEquals(n, f) ==
    CASE f.t = "number" -> n = f.n
      [] OTHER -> FALSE

\* arrayItems.length >= first: false against undefined, null reads as 0
LengthAtLeast(n, f) ==
    CASE f.t = "number" -> n >= f.n
      [] f.t = "null" -> n >= 0
      [] OTHER -> FALSE

\* getEdgeProps(edgeProps, val): the loop over the keys, reading then
\* deleting each; props is what it returns, val what it leaves of val
RECURSIVE GetEdgePropsLoop(_, _, _)
GetEdgePropsLoop(keys, props, val) ==
    IF keys = <<>> THEN [props |-> props, val |-> val]
    ELSE LET prop == Head(keys)
         IN  GetEdgePropsLoop(Tail(keys),
                              Spread(props, [q \in {prop} |-> Get(val, prop)]),
                              Delete(val, prop))

GetEdgeProps(edgeProps, val) ==
    GetEdgePropsLoop(ObjectKeys(edgeProps), EmptyObj, val)

\* the user's cursor functions: (type, val) => val.name and val => val.name
FnValName == 1
FnItemName == 2

TypeErrorThrown == Thrown("TypeError: Cannot read properties of undefined")

Returned(v) == [kind |-> "return", value |-> v]

\* a defaultEncodeCursorFn that never encodes
RawCursorFn(tn, val, cursorProp, shouldEncode) ==
    IF val = Undef THEN TypeErrorThrown
    ELSE Returned(Get(val, PropOf(cursorProp)))

\* a defaultEncodeCursorFn that reads its flag the wrong way round
InvertedEncodeCursorFn(tn, val, cursorProp, shouldEncode) ==
    IF val = Undef THEN TypeErrorThrown
    ELSE IF Truthy(shouldEncode) THEN Returned(Get(val, PropOf(cursorProp)))
    ELSE Returned(EncodeCursor(tn, Get(val, PropOf(cursorProp))))

\* defaultEncodeCursorFn(typeName, val, cursorProp, shouldEncode); val is
\* Undef when there is no item, and reading a property of it throws
DefaultEncodeCursorFn(tn, val, cursorProp, shouldEncode) ==
    IF val = Undef THEN TypeErrorThrown
    ELSE IF ~Truthy(shouldEncode) THEN Returned(Get(val, PropOf(cursorProp)))
    ELSE Returned(EncodeCursor(tn, Get(val, PropOf(cursorProp))))

\* fn(...args) of a user's cursor function: val is the parameter the
\* function reads name of, its second or its first; a parameter with no
\* argument is undefined, and a string has no property name
ApplyCursorFn(fn, args) ==
    LET k == IF fn.s = FnValName THEN 2 ELSE 1
        val == IF k <= Len(args) THEN args[k] ELSE Undef
    IN  IF val = Undef THEN TypeErrorThrown
        ELSE IF "t" \in DOMAIN val THEN Returned(Undef)
        ELSE Returned(Get(val, "name"))

\* the call of a user's cursor function: getCursor(baseType, value)
CallCursorFn(fn, tn, val) == ApplyCursorFn(fn, <<tn, val>>)

\* getCursor(type, val)
GetCursor(c, tn, val) ==
    IF TypeOf(c.cursorPropOrFn) = "string"
    THEN DefaultEncodeCursorFn(tn, val, c.cursorPropOrFn, c.encodeCursor)
    ELSE CallCursorFn(c.cursorPropOrFn, tn, val)

\* one step of slice.map: the edge of an item, and the item as the step
\* leaves it.  The spread is evaluated before the cursor; value is an item
\* of the list, so getCursor returns.
EdgeOf(c, tn, value) ==
    LET moved == IF c.edgeProps.t \in {"object", "array"}
                 THEN GetEdgeProps(c.edgeProps, value)
                 ELSE [props |-> EmptyObj, val |-> value]
    IN  [edge |-> Spread(moved.props,
                         [cursor |-> GetCursor(c, tn, moved.val).value,
                          node |-> moved.val]),
         val |-> moved.val]

\* pageInfoPartial?.key
Partial(pip, key) == IF Nullish(pip) THEN Undef ELSE Get(pip.o, key)

\* hasPreviousPage from after !== undefined
HasPreviousPageIfDefined(pip, aft) ==
    Coalesce(Partial(pip, "hasPreviousPage"), Bool(aft # Undef))

\* hasPreviousPage: pageInfoPartial?.hasPreviousPage ?? !!after
HasPreviousPage(pip, aft) ==
    Coalesce(Partial(pip, "hasPreviousPage"), Bool(Truthy(aft)))

\* hasNextPage: pageInfoPartial?.hasNextPage ?? arrayItems.length >= first
HasNextPage(pip, n, f) ==
    Coalesce(Partial(pip, "hasNextPage"), Bool(LengthAtLeast(n, f)))

\* ...connectionProps: nothing for undefined
Props(cp) == IF Nullish(cp) THEN EmptyObj ELSE cp.o

\* no check of first
FirstNeverNegative(f) == FALSE

\* the negative-first check
FirstIsNegative(f) == TypeOf(f) = "number" /\ f.n < 0

\* the pageInfo of a result
PageInfo(startCursor, endCursor, pip, aft, n, f) ==
    [startCursor |-> startCursor,
     endCursor |-> endCursor,
     hasPreviousPage |-> HasPreviousPage(pip, aft),
     hasNextPage |-> HasNextPage(pip, n, f)]

\* the edges branch: slice.map, then edges[0].cursor and
\* edges[edges.length - 1].cursor, which throw on an empty list
EdgesConnection(c, tn, items, slice, f, aft, pip, cp) ==
    LET m == Len(slice)
        steps == [k \in 1..m |-> EdgeOf(c, tn, slice[k])]
        edges == [k \in 1..m |-> steps[k].edge]
        left == [k \in 1..Len(items) |->
                   IF k <= m THEN steps[k].val ELSE items[k]]
    IN  [out |-> IF m = 0 THEN TypeErrorThrown
                 ELSE Returned(Spread(Props(cp),
                        [edges |-> edges,
                         pageInfo |-> PageInfo(edges[1].cursor, edges[m].cursor,
                                               pip, aft, Len(items), f)])),
         items |-> left]

\* a simple branch that maps the slice to edges all the same
SimpleAsEdges(c, tn, items, slice, f, aft, pip, cp) ==
    EdgesConnection(c, tn, items, slice, f, aft, pip, cp)

\* the simple branch: the slice is the edges, the cursors are read from its
\* first and last item (undefined when the slice is empty)
SimpleConnection(c, tn, items, slice, f, aft, pip, cp) ==
    LET m == Len(slice)
        sc == GetCursor(c, tn, IF m = 0 THEN Undef ELSE slice[1])
        ec == GetCursor(c, tn, IF m = 0 THEN Undef ELSE slice[m])
    IN  [out |-> IF sc.kind = "throw" THEN sc
                 ELSE IF ec.kind = "throw" THEN ec
                 ELSE Returned(Spread(Props(cp),
                        [edges |-> slice,
                         pageInfo |-> PageInfo(sc.value, ec.value, pip, aft,
                                               Len(items), f)])),
         items |-> items]

\* connectionFromArray(baseType, arrayItems, {first, after}, config,
\* pageInfoPartial, connectionProps): what it returns or throws (out), and
\* the items as it leaves them (items)
ConnectionFromArray(tn, items, f, aft, cfg, pip, cp) ==
    LET c == ConfigOf(cfg)
        slice == Slice(items, f)
    IN  IF FirstIsNegative(f)
        THEN [out |-> Thrown("Argument \"first\" must be a non-negative integer"),
              items |-> items]
        ELSE IF c.paginationMode = PAGINATION_MODE.SIMPLE
        THEN SimpleConnection(c, tn, items, slice, f, aft, pip, cp)
        ELSE EdgesConnection(c, tn, items, slice, f, aft, pip, cp)

-----------------------------------------------------------------------------
(* connectionDirective.js: the schema transformer.  A schema is the list   *)
(* of its object types in the order mapSchema visits them; a type is its   *)
(* name and its fields; a field has a name, the text of its type, its      *)
(* arguments, the marker's arguments (undefined for an untagged field) and *)
(* its resolver.  Names and type texts are code points.                    *)

\* type.toString() of a named type under its wrappers
Named(n) == n
NonNull(t) == t \o NameChars("!")
List(t) == NameChars("[") \o t \o NameChars("]")

\* a type and a field of a schema; an argument or a field of a synthesized
\* type is a name and the text of its type
SchemaType(name, fields) == [name |-> name, fields |-> fields]
SchemaField(name, type, args, directive, resolve) ==
    [name |-> name, type |-> type, args |-> args, directive |-> directive,
     resolve |-> resolve]
Typed(name, type) == [name |-> name, type |-> type]

\* text.match(/[A-Z][a-z]+/)?.[0]: the leftmost capital that a lower-case
\* letter follows, with all the lower-case letters after it; null when
\* there is none
Match(text) ==
    LET IsUpper(c) == c >= 65 /\ c <= 90
        IsLower(c) == c >= 97 /\ c <= 122
        starts == {i \in 1..(Len(text) - 1) :
                     IsUpper(text[i]) /\ IsLower(text[i + 1])}
    IN  IF starts = {} THEN Null
        ELSE LET i == CHOOSE j \in starts : \A k \in starts : j <= k
                 e == CHOOSE m \in (i + 1)..Len(text) :
                        /\ \A q \in (i + 1)..m : IsLower(text[q])
                        /\ (m = Len(text) \/ ~IsLower(text[m + 1]))
             IN  Str(SubSeq(text, i, e))

\* getTypeKey(typeName, fieldName)
GetTypeKey(tn, fieldName) == tn \o NameChars(".") \o fieldName

\* defaultFieldResolver
defaultFieldResolver == Fn(<<>>)

\* the binding the scan records for a field, undefined for a field it
\* records nothing for
BindingOf(tn, field) ==
    IF ~Truthy(field.directive) THEN Undef
    ELSE LET match == Match(field.type)
         IN  IF ~Truthy(match) THEN Undef
             ELSE [t |-> "binding",
                   key |-> GetTypeKey(tn, field.name),
                   typeName |-> match.s,
                   resolver |-> Coalesce(field.resolve, defaultFieldResolver),
                   prefix |-> Coalesce(Get(field.directive.o, "prefix"),
                                       match).s]

\* the fields of the schema in the order they are visited, each with the
\* name of its type
RECURSIVE VisitFields(_)
VisitFields(types) ==
    IF types = <<>> THEN <<>>
    ELSE [k \in 1..Len(Head(types).fields) |->
            [typeName |-> Head(types).name, field |-> Head(types).fields[k]]]
         \o VisitFields(Tail(types))

\* connectionTypes after mapSchema: the bindings in the order of their keys
RECURSIVE ScanFields(_)
ScanFields(visited) ==
    IF visited = <<>> THEN <<>>
    ELSE LET b == BindingOf(Head(visited).typeName, Head(visited).field)
         IN  (IF b.t = "undefined" THEN <<>> ELSE <<b>>) \o ScanFields(Tail(visited))

ConnectionTypes(sch) == ScanFields(VisitFields(sch))

\* existingTypes[name]
ExistingTypes(sch) == {sch[k].name : k \in 1..Len(sch)}

\* the PageInfo type the transformer writes
PageInfoType ==
    SchemaType(NameChars("PageInfo"),
               <<Typed(NameChars("startCursor"), Named(NameChars("String"))),
                 Typed(NameChars("endCursor"), Named(NameChars("String"))),
                 Typed(NameChars("hasNextPage"), NonNull(Named(NameChars("Boolean")))),
                 Typed(NameChars("hasPreviousPage"), NonNull(Named(NameChars("Boolean"))))>>)

\* Object.entries(props) filtered to the string values, each written as
\* `${key}: ${val}`
RECURSIVE StringEntries(_, _)
StringEntries(keys, o) ==
    IF keys = <<>> THEN <<>>
    ELSE (IF TypeOf(o[Head(keys)]) = "string"
          THEN <<Typed(NameChars(Head(keys)), o[Head(keys)].s)>>
          ELSE <<>>) \o StringEntries(Tail(keys), o)

\* mapAdditionalProps without the sub-key: always the top-level entries
MapTopLevelProps(additionalProps, subKey) ==
    IF ~Truthy(additionalProps) THEN <<>>
    ELSE StringEntries(additionalProps.keys, additionalProps.o)

\* mapAdditionalProps(additionalProps, subKey): the lines it writes.  The
\* call it makes on the nested map passes no sub-key.
MapAdditionalProps(additionalProps, subKey) ==
    IF ~Truthy(additionalProps) THEN <<>>
    ELSE LET nested == Get(additionalProps.o, PropOf(Str(subKey)))
         IN  IF subKey # <<>> /\ Truthy(nested)
             THEN StringEntries(nested.keys, nested.o)
             ELSE StringEntries(additionalProps.keys, additionalProps.o)

\* options[typeName]
TypeOptions(opts, tn) == Get(opts.o, PropOf(Str(tn)))

\* typeOptions?.key
OptionOf(typeOptions, key) ==
    IF Nullish(typeOptions) THEN Undef ELSE Get(typeOptions.o, key)

\* typeOptions?.paginationMode === PAGINATION_MODE.SIMPLE
IsSimple(typeOptions) ==
    OptionOf(typeOptions, "paginationMode") = PAGINATION_MODE.SIMPLE

\* an edge name that is `${prefix}Edge` in simple mode too
EdgeNameAlways(typeOptions, tn, prefix) == prefix \o NameChars("Edge")

\* edgeName
EdgeName(typeOptions, tn, prefix) ==
    IF IsSimple(typeOptions) THEN tn ELSE prefix \o NameChars("Edge")

\* the types one binding adds to newTypes
TypesOfBinding(opts, existing, b) ==
    LET typeOptions == TypeOptions(opts, b.typeName)
        edgeName == EdgeName(typeOptions, b.typeName, b.prefix)
        newConnectionName == b.prefix \o NameChars("Connection")
    IN  (IF ~IsSimple(typeOptions) /\ edgeName \notin existing
         THEN <<SchemaType(edgeName,
                    <<Typed(NameChars("cursor"), NonNull(Named(NameChars("ID")))),
                      Typed(NameChars("node"), Named(b.typeName))>>
                    \o MapAdditionalProps(OptionOf(typeOptions, "edgeProps"),
                                          b.prefix))>>
         ELSE <<>>)
        \o
        (IF newConnectionName \notin existing
         THEN <<SchemaType(newConnectionName,
                    <<Typed(NameChars("edges"), NonNull(List(NonNull(Named(edgeName))))),
                      Typed(NameChars("pageInfo"), NonNull(Named(NameChars("PageInfo"))))>>
                    \o MapAdditionalProps(OptionOf(typeOptions,
                                                   "connectionProps"),
                                          b.prefix))>>
         ELSE <<>>)

\* the loop over Object.values(connectionTypes)
RECURSIVE TypesOfBindings(_, _, _)
TypesOfBindings(opts, existing, bindings) ==
    IF bindings = <<>> THEN <<>>
    ELSE TypesOfBinding(opts, existing, Head(bindings))
         \o TypesOfBindings(opts, existing, Tail(bindings))

\* newTypes written whatever the schema declares
NewTypesUnguarded(opts, sch, bindings) ==
    <<PageInfoType>> \o TypesOfBindings(opts, {}, bindings)

\* newTypes
NewTypes(opts, sch, bindings) ==
    (IF NameChars("PageInfo") \notin ExistingTypes(sch) THEN <<PageInfoType>> ELSE <<>>)
    \o TypesOfBindings(opts, ExistingTypes(sch), bindings)

\* one type definition merged into the types: a name the types do not
\* have yet is appended; under a name they have, the fields the type does
\* not have yet are added to it.  A field of a type written as
\* schema text has no arguments, marker or resolver
MergeType(types, def) ==
    LET FieldOfText(f) == SchemaField(f.name, f.type, <<>>, Undef, Undef)
        FieldNames(fs) == {fs[k].name : k \in 1..Len(fs)}
        fields == [k \in 1..Len(def.fields) |-> FieldOfText(def.fields[k])]
    IN  IF \E k \in 1..Len(types) : types[k].name = def.name
        THEN [k \in 1..Len(types) |->
                IF types[k].name = def.name
                THEN SchemaType(def.name,
                       types[k].fields
                       \o SelectSeq(fields,
                            LAMBDA f : f.name \notin FieldNames(types[k].fields)))
                ELSE types[k]]
        ELSE Append(types, SchemaType(def.name, fields))

\* mergeSchemas({ schemas: [schema], typeDefs: newTypes })
RECURSIVE MergeSchemas(_, _)
MergeSchemas(types, newTypes) ==
    IF newTypes = <<>> THEN types
    ELSE MergeSchemas(MergeType(types, Head(newTypes)), Tail(newTypes))

\* a connection type that is left nullable
GetNullableConnectionType(tn) == Named(tn \o NameChars("Connection"))

\* getConnectionType(typeName)
GetConnectionType(tn) == NonNull(Named(tn \o NameChars("Connection")))

\* getConnectionArgs()
GetConnectionArgs ==
    <<Typed(NameChars("first"), Named(NameChars("Int"))), Typed(NameChars("after"), Named(NameChars("ID")))>>

\* the connection arguments in place of the field's own
DropArgs(a, b) == b

\* { ...a, ...b } of two argument maps; args[x.name] = x is in place for a
\* name args has, at the end otherwise
RECURSIVE SpreadArgs(_, _)
SpreadArgs(a, b) ==
    LET PutArg(args, x) ==
            IF \E k \in 1..Len(args) : args[k].name = x.name
            THEN [k \in 1..Len(args) |->
                    IF args[k].name = x.name THEN x ELSE args[k]]
            ELSE Append(args, x)
    IN  IF b = <<>> THEN a ELSE SpreadArgs(PutArg(a, Head(b)), Tail(b))

\* the wrapping resolver of a binding: a function that holds the binding's
\* baseType, prefix and originalResolver
Wrapper(b) == [t |-> "function", s |-> <<>>, n |-> 0, binding |-> b]

\* a rewrite of the type of every tagged field, bound or not
RewriteTagged(connectionTypes, tn, field) ==
    IF ~Truthy(field.directive) THEN field
    ELSE SchemaField(field.name, GetConnectionType(tn), field.args,
                     field.directive, field.resolve)

\* what TransformObjectFields makes of one field; b is
\* connectionTypes[typeKey]
TransformField(connectionTypes, tn, field) ==
    LET typeKey == GetTypeKey(tn, field.name)
        b == IF \E k \in 1..Len(connectionTypes) :
                  connectionTypes[k].key = typeKey
             THEN connectionTypes[CHOOSE k \in 1..Len(connectionTypes) :
                                    connectionTypes[k].key = typeKey]
             ELSE Undef
    IN  IF b.t = "undefined" THEN field
        ELSE SchemaField(field.name,
                         GetConnectionType(b.prefix),
                         SpreadArgs(field.args, GetConnectionArgs),
                         field.directive,
                         Wrapper(b))

\* wrapSchema with the TransformObjectFields transform
WrapSchema(types, connectionTypes) ==
    [k \in 1..Len(types) |->
       SchemaType(types[k].name,
         [j \in 1..Len(types[k].fields) |->
            TransformField(connectionTypes, types[k].name,
                           types[k].fields[j])])]

\* connectionDirectiveTransformer(schema): the bindings it records, the
\* type definitions it writes and the schema it returns
ConnectionDirectiveTransformer(opts, sch) ==
    LET connectionTypes == ConnectionTypes(sch)
        newTypes == NewTypes(opts, sch, connectionTypes)
    IN  [kind |-> "return",
         connectionTypes |-> connectionTypes,
         newTypes |-> newTypes,
         schema |-> WrapSchema(MergeSchemas(sch, newTypes), connectionTypes)]

-----------------------------------------------------------------------------
(* connectionDirective.js: the wrapping resolver.  A resolver of the       *)
(* schema is named by the value it settles to.                             *)

\* a resolver that settles to v
ResolverOf(v) == [t |-> "function", s |-> <<>>, n |-> 0, returns |-> v]

\* await originalResolver(root, args, ctx, info); the default resolver
\* reads a property the root does not have
Settled(resolver) ==
    IF "returns" \in DOMAIN resolver THEN resolver.returns ELSE Undef

\* obj[p] = v
Set(obj, p, v) ==
    Obj(IF p \in DOMAIN obj.o THEN obj.keys ELSE Append(obj.keys, p),
        [q \in (DOMAIN obj.o) \cup {p} |-> IF q = p THEN v ELSE obj.o[q]])

\* if (typeOptions) typeOptions.edgeProps =
\*   typeOptions.edgeProps?.[prefix] ?? typeOptions.edgeProps:
\* the typeOptions object as the wrapper leaves it
Narrowed(typeOptions, prefix) ==
    IF ~Truthy(typeOptions) THEN typeOptions
    ELSE LET edgeProps == Get(typeOptions.o, "edgeProps")
         IN  Set(typeOptions, "edgeProps",
                 Coalesce(IF Nullish(edgeProps) THEN Undef
                          ELSE Get(edgeProps.o, PropOf(Str(prefix))),
                          edgeProps))

\* a check that lets every result through
EverythingIsObject(res) == TRUE

\* typeof res === 'object'
IsObjectType(res) == TypeOf(res) = "object"

\* res.key of a value that is not null or undefined: a primitive has no
\* such property
Member(res, key) == IF res.t = "object" THEN Get(res.o, key) ELSE Undef

\* a destructuring that drops the other keys
NoRest(res) == ObjOf(EmptyObj)

\* const { edges, pageInfo, ...connectionProps } = res
Rest(res) ==
    IF res.t # "object" THEN ObjOf(EmptyObj)
    ELSE LET keys == SelectSeq(res.keys,
                               LAMBDA q : q \notin {"edges", "pageInfo"})
         IN  Obj(keys, [q \in {keys[k] : k \in 1..Len(keys)} |-> res.o[q]])

\* connectionFromArray called by the wrapper: arrayItems is what the
\* resolver handed over, and arrayItems.slice throws on what is no array
ConnectionFromResult(tn, items, args, typeOptions, pip, cp) ==
    IF items.t # "array"
    THEN [out |-> IF FirstIsNegative(args.first)
                  THEN Thrown("Argument \"first\" must be a non-negative integer")
                  ELSE TypeErrorThrown,
          items |-> <<>>]
    ELSE ConnectionFromArray(tn, items.keys, args.first, args.after,
                             typeOptions, pip, cp)

\* the wrapper from the point where the original resolver has settled to
\* res: what it returns or throws (out), the options as it leaves them
\* (options) and the items as it leaves them (items)
WrapperResume(opts, b, args, res) ==
    LET typeOptions == TypeOptions(opts, b.typeName)
        narrowed == Narrowed(typeOptions, b.prefix)
        opts1 == IF ~Truthy(typeOptions) THEN opts
                 ELSE Set(opts, PropOf(Str(b.typeName)), narrowed)
        r == IF ~IsObjectType(res)
             THEN [out |-> Thrown("Connection responses must be an array or object"),
                   items |-> <<>>]
             ELSE IF res.t = "array"
             THEN ConnectionFromResult(Str(b.typeName), res, args, narrowed,
                                       Undef, Undef)
             ELSE IF Nullish(res)
             THEN [out |-> Thrown("TypeError: Cannot destructure 'res' as it is null"),
                   items |-> <<>>]
             ELSE ConnectionFromResult(Str(b.typeName), Member(res, "edges"),
                                       args, narrowed, Member(res, "pageInfo"),
                                       Rest(res))
    IN  [out |-> r.out, options |-> opts1, items |-> r.items]

-----------------------------------------------------------------------------
(* The codec's runs: encodeCursor on a drawn (typeName, id) and            *)
(* decodeCursor on its result, or decodeCursor on a cursor that            *)
(* encodeCursor did not make.                                              *)

\* ':', 'a', '1' and the two-byte 'e acute'
Alphabet == {Colon, 97, 49, 233}

Strings(n) == UNION {[1..k -> Alphabet] : k \in 0..n}

CodecTypeNames == {Str(s) : s \in Strings(MaxLen)}

CodecIds == {Str(s) : s \in Strings(MaxLen)} \cup {Num(0), Num(7), Num(1234)}

\* 'foo' (the test's invalid cursor), '', 'YTo' (an unpadded 'a:') and 'YQ=='
RawCursors ==
    {Str(<<102, 111, 111>>), Str(<<>>), Str(<<89, 84, 111>>),
     Str(<<89, 81, 61, 61>>)}

NoResult == [kind |-> "none"]

\* the directive's variables while the helpers run
DirectiveIdle ==
    /\ schema = <<>>
    /\ options = Undef
    /\ options0 = Undef
    /\ transformed = NoResult
    /\ calls = <<>>

\* the windowing variables while the codec runs
ConnIdle ==
    /\ baseType = Undef
    /\ arrayItems0 = <<>>
    /\ arrayItems = <<>>
    /\ first = Undef
    /\ after = Undef
    /\ config = Undef
    /\ pageInfoPartial = Undef
    /\ connectionProps = Undef
    /\ result = NoResult

InitCodec ==
    /\ ConnIdle
    /\ DirectiveIdle
    /\ decoded = NoResult
    /\ \/ /\ pc = "start"
          /\ typeName \in CodecTypeNames
          /\ id \in CodecIds
          /\ cursor = Undef
       \/ /\ pc = "raw"
          /\ typeName = Undef
          /\ id = Undef
          /\ cursor \in RawCursors

EncodeCursorCall ==
    /\ pc = "start"
    /\ cursor' = EncodeCursor(typeName, id)
    /\ pc' = "encoded"
    /\ UNCHANGED <<typeName, id, decoded>>
    /\ UNCHANGED connVars
    /\ UNCHANGED directiveVars

DecodeCursorCall ==
    /\ pc \in {"encoded", "raw"}
    /\ decoded' = DecodeCursor(cursor)
    /\ pc' = IF pc = "raw" THEN "decodedRaw" ELSE "decoded"
    /\ UNCHANGED <<typeName, id, cursor>>
    /\ UNCHANGED connVars
    /\ UNCHANGED directiveVars

NextCodec == EncodeCursorCall \/ DecodeCursorCall

SpecCodec == InitCodec /\ [][NextCodec]_vars

\* the text decodeCursor splits: the UTF-8 reading of the decoded bytes
DecodedText == Utf8Decode(Base64Decode(cursor.s))

HasColon(s) == \E k \in 1..Len(s) : s[k] = Colon

FirstColon(s) == CHOOSE k \in 1..Len(s) : s[k] = Colon /\ \A m \in 1..(k - 1) : s[m] # Colon

\* C1: a cursor encoded from a non-empty colon-free type name and an id
\* whose string form is non-empty and colon-free decodes to that type name
\* and to the string form of the id, a string also when the id was a number.
C1_RoundTrip ==
    (/\ pc = "decoded"
     /\ typeName.s # <<>>
     /\ ~HasColon(typeName.s)
     /\ StringOf(id) # <<>>
     /\ ~HasColon(StringOf(id)))
    => /\ decoded.kind = "return"
       /\ decoded.typeName = typeName
       /\ decoded.id = Str(StringOf(id))
       /\ TypeOf(decoded.id) = "string"

\* a numeric id and a type name with a two-byte character have made the
\* round trip
C1_Witness ==
    /\ pc = "decoded"
    /\ typeName = Str(<<233, 97>>)
    /\ id = Num(1234)
    /\ decoded.kind = "return"
    /\ decoded.id = Str(<<49, 50, 51, 52>>)

\* C2: decodeCursor throws 'Invalid cursor provided' whenever the decoded
\* text has no colon, nothing before its first colon or nothing right after
\* it; what it returns never has an empty typeName or id.
C2_InvalidCursor ==
    pc \in {"decoded", "decodedRaw"} =>
      LET text == DecodedText
          bad == \/ ~HasColon(text)
                 \/ text[1] = Colon
                 \/ FirstColon(text) = Len(text)
                 \/ text[FirstColon(text) + 1] = Colon
      IN  /\ bad => decoded = Thrown("Invalid cursor provided")
          /\ decoded.kind = "return" =>
               /\ decoded.typeName.t = "string" /\ decoded.typeName.s # <<>>
               /\ decoded.id.t = "string" /\ decoded.id.s # <<>>

\* decodeCursor has thrown on encodeCursor('', '1'), on encodeCursor('a', '')
\* and on the colon-free 'foo'
C2_Witness ==
    /\ decoded = Thrown("Invalid cursor provided")
    /\ \/ pc = "decoded" /\ typeName = Str(<<>>) /\ id = Str(<<49>>)
       \/ pc = "decoded" /\ typeName = Str(<<97>>) /\ id = Str(<<>>)
       \/ pc = "decodedRaw" /\ cursor = Str(<<102, 111, 111>>)

-----------------------------------------------------------------------------
(* connectionFromArray's runs: one call on drawn arguments.  The item list *)
(* is a window of a table whose first rows are the tests' data().          *)

RowNames == <<NameChars("foo"), NameChars("bar"), NameChars("baz")>>

\* row k of the table: the rows after the third have a string id and no
\* otherId
Row(k) ==
    IF k <= 3
    THEN [id |-> Num(10000 + k), otherId |-> Num(8000 + k),
          name |-> Str(RowNames[k])]
    ELSE [id |-> Str(<<114>> \o Digits(k)), name |-> Str(<<110>> \o Digits(k))]

Window(start, n) == [k \in 1..n |-> Row(start + k - 1)]

BaseTypes == {Str(NameChars("User")), Str(NameChars("Film"))}

Firsts == {Undef, Null} \cup {Num(n) : n \in -1..MaxFirst}

\* an edgeProps map naming the given properties
EdgePropsMap(keys) ==
    Obj(keys, [q \in {keys[k] : k \in 1..Len(keys)} |-> Str(NameChars("Int"))])

\* the optional inputs of a call, undefined when not supplied
Options ==
    [after : {Undef, Str(<<>>), Num(1)},
     paginationMode : {Undef, PAGINATION_MODE.SIMPLE, PAGINATION_MODE.EDGES},
     edgeProps : {Undef, EdgePropsMap(<<"otherId">>),
                  EdgePropsMap(<<"otherId", "id">>), Arr(<<PropStr("otherId")>>)},
     encodeCursor : {Undef, Bool(TRUE), Bool(FALSE)},
     cursorPropOrFn : {Undef, PropStr("id"), PropStr("otherId"), Fn(FnValName),
                       Fn(FnItemName)},
     hasNextPage : {Undef, Bool(TRUE), Bool(FALSE)},
     hasPreviousPage : {Undef, Bool(TRUE), Bool(FALSE)},
     connectionProps : {Undef, ObjOf([totalCount |-> Num(5)]),
                        ObjOf([edges |-> <<>>,
                               pageInfo |-> [hasNextPage |-> Bool(TRUE)],
                               totalCount |-> Num(5)])}]

Supplied(o) == {q \in DOMAIN o : o[q] # Undef}

DrawnOptions == {o \in Options : Cardinality(Supplied(o)) <= MaxOptions}

\* the object with those of the named properties of o that are supplied;
\* undefined when none is
Given(o, names) ==
    IF names \cap Supplied(o) = {} THEN Undef
    ELSE ObjOf([q \in names \cap Supplied(o) |-> o[q]])

InitConn ==
    /\ DirectiveIdle
    /\ typeName = Undef
    /\ id = Undef
    /\ cursor = Undef
    /\ decoded = NoResult
    /\ pc = "call"
    /\ baseType \in BaseTypes
    /\ \E start \in 1..MaxStart, n \in 0..MaxItems :
         arrayItems0 = Window(start, n)
    /\ arrayItems = arrayItems0
    /\ first \in Firsts
    /\ \E o \in DrawnOptions :
         /\ after = o.after
         /\ config = Given(o, {"paginationMode", "edgeProps", "encodeCursor",
                               "cursorPropOrFn"})
         /\ pageInfoPartial = Given(o, {"hasNextPage", "hasPreviousPage"})
         /\ connectionProps = o.connectionProps
    /\ result = NoResult

ConnectionFromArrayCall ==
    /\ pc = "call"
    /\ LET r == ConnectionFromArray(baseType, arrayItems, first, after, config,
                                    pageInfoPartial, connectionProps)
       IN  /\ result' = r.out
           /\ arrayItems' = r.items
    /\ pc' = "done"
    /\ UNCHANGED <<baseType, arrayItems0, first, after, config,
                   pageInfoPartial, connectionProps>>
    /\ UNCHANGED codecVars
    /\ UNCHANGED directiveVars

NextConn == ConnectionFromArrayCall

SpecConn == InitConn /\ [][NextConn]_vars

-----------------------------------------------------------------------------
(* Properties of connectionFromArray.                                      *)

Done == pc = "done"
HasReturned == Done /\ result.kind = "return"

\* the edges and the pageInfo of the returned connection
Edges == result.value["edges"]
Info == result.value["pageInfo"]

\* a configuration property as the caller wrote it
Configured(name) == IF config = Undef THEN Undef ELSE Get(config.o, name)

SimpleMode == Configured("paginationMode") = Str(NameChars("simple"))

\* the keys of the configured edgeProps
EdgePropKeys ==
    IF Configured("edgeProps") = Undef THEN {}
    ELSE {ObjectKeys(Configured("edgeProps"))[k] :
            k \in 1..Len(ObjectKeys(Configured("edgeProps")))}

\* the number of items a page of first holds
PageLength ==
    IF first = Undef \/ first.n > Len(arrayItems0) THEN Len(arrayItems0)
    ELSE first.n

\* C3: a call with a numeric first < 0 throws 'Argument "first" must be a
\* non-negative integer' whatever the items, the mode and the configuration
\* are; it returns no connection and leaves every item as it was.
C3_NegativeFirst ==
    (Done /\ first.t = "number" /\ first.n < 0)
    => /\ result = Thrown("Argument \"first\" must be a non-negative integer")
       /\ arrayItems = arrayItems0

\* a call with first = -1 on three items with edgeProps configured has thrown
C3_Witness ==
    /\ Done
    /\ first = Num(-1)
    /\ Len(arrayItems0) = 3
    /\ EdgePropKeys # {}
    /\ result.kind = "throw"

\* C4: for a non-negative first the returned edges are, one for one and in
\* input order, the first min(first, n) items, and all n items when first is
\* not supplied: edge k is item k in simple mode and wraps item k (what
\* relocation leaves of it) in edges mode.
C4_Slicing ==
    (HasReturned /\ (first = Undef \/ (first.t = "number" /\ first.n >= 0)))
    => /\ Len(Edges) = PageLength
       /\ \A k \in 1..PageLength :
            LET item == IF SimpleMode THEN Edges[k] ELSE Edges[k]["node"]
            IN  /\ item = arrayItems[k]
                /\ DOMAIN item \subseteq DOMAIN arrayItems0[k]
                /\ \A q \in DOMAIN item : item[q] = arrayItems0[k][q]

\* first = 2 on three items has returned two edges, and first = 4 on three
\* items would return three
C4_Witness ==
    /\ HasReturned
    /\ first = Num(2)
    /\ arrayItems0 = Window(1, 3)
    /\ Len(Edges) = 2
    /\ ~SimpleMode
    /\ Edges[2]["node"] = Row(2)

\* the default configuration: edges mode, cursorPropOrFn 'id', encoding on,
\* no edgeProps
DefaultConfig == ConfigOf(config) = ConfigOf(Undef)

cursor10001 ==
    Str(<<86, 88, 78, 108, 99, 106, 111, 120, 77, 68, 65, 119, 77, 81, 61, 61>>)
cursor10002 ==
    Str(<<86, 88, 78, 108, 99, 106, 111, 120, 77, 68, 65, 119, 77, 103, 61, 61>>)

CursorFor(v) ==
    IF Configured("encodeCursor") = Bool(FALSE) THEN v
    ELSE EncodeCursor(baseType, v)

StringCursorProp ==
    Configured("cursorPropOrFn") = Undef
      \/ Configured("cursorPropOrFn").t = "string"

CursorProp ==
    IF Configured("cursorPropOrFn") = Undef THEN "id"
    ELSE PropOf(Configured("cursorPropOrFn"))

cursor8001 == Str(<<86, 88, 78, 108, 99, 106, 111, 52, 77, 68, 65, 120>>)

C7_SimpleMode ==
    (HasReturned /\ SimpleMode)
    => /\ Edges = [k \in 1..PageLength |-> arrayItems0[k]]
       /\ arrayItems = arrayItems0
       /\ \A k \in 1..Len(Edges) :
            "cursor" \notin DOMAIN Edges[k] /\ "node" \notin DOMAIN Edges[k]
       /\ StringCursorProp =>
            /\ Info.startCursor = CursorFor(Get(arrayItems0[1], CursorProp))
            /\ Info.endCursor =
                 CursorFor(Get(arrayItems0[PageLength], CursorProp))
       /\ Configured("cursorPropOrFn") = Fn(FnValName) =>
            /\ Info.startCursor = Get(arrayItems0[1], "name")
            /\ Info.endCursor = Get(arrayItems0[PageLength], "name")

\* a simple-mode call with edgeProps naming otherId has returned items that
\* still carry otherId, with the cursors of the test 'simple mode'
C7_Witness ==
    /\ HasReturned
    /\ SimpleMode
    /\ "otherId" \in EdgePropKeys
    /\ baseType = Str(NameChars("User"))
    /\ arrayItems0 = Window(1, 3)
    /\ first = Num(2)
    /\ Edges = <<Row(1), Row(2)>>
    /\ Info.startCursor = cursor10001
    /\ Info.endCursor = cursor10002

\* C8: in edges mode every edge carries each property named by the keys of
\* edgeProps with the value its item had, and its node no longer has it;
\* the properties edgeProps does not name stay on the node.
C8_EdgePropsMoved ==
    (HasReturned /\ ~SimpleMode)
    => \A k \in 1..Len(Edges) :
         /\ \A q \in EdgePropKeys :
              /\ q \in DOMAIN Edges[k]
              /\ Edges[k][q] = Get(arrayItems0[k], q)
              /\ q \notin DOMAIN Edges[k]["node"]
         /\ \A q \in (DOMAIN arrayItems0[k]) \ EdgePropKeys :
              /\ q \in DOMAIN Edges[k]["node"]
              /\ Edges[k]["node"][q] = arrayItems0[k][q]
              /\ q \notin DOMAIN Edges[k]

\* the test 'edge props': otherId 8001 is on the first edge and no longer
\* on its node
C8_Witness ==
    /\ HasReturned
    /\ ~SimpleMode
    /\ EdgePropKeys = {"otherId"}
    /\ arrayItems0 = Window(1, 3)
    /\ Edges[1]["otherId"] = Num(8001)
    /\ Edges[1]["node"] = [id |-> Num(10001), name |-> Str(NameChars("foo"))]

\* the override of a pageInfo key, undefined when not supplied
Override(name) ==
    IF pageInfoPartial = Undef THEN Undef ELSE Get(pageInfoPartial.o, name)

AfterIsTruthy ==
    after \notin {Undef, Null, Str(<<>>), Num(0), Bool(FALSE)}

\* C9: hasPreviousPage is the pageInfo override's value when it supplies
\* one; otherwise it is true exactly when after is truthy, whatever the
\* items and first are.
C9_HasPreviousPage ==
    HasReturned
    => Info.hasPreviousPage =
         (IF Override("hasPreviousPage") # Undef
          THEN Override("hasPreviousPage")
          ELSE Bool(AfterIsTruthy))

\* hasPreviousPage has been overridden to false against a truthy after, and
\* inferred false from the falsy after ''
C9_Witness ==
    /\ HasReturned
    /\ \/ /\ Override("hasPreviousPage") = Bool(FALSE)
          /\ after = Num(1)
          /\ Info.hasPreviousPage = Bool(FALSE)
       \/ /\ Override("hasPreviousPage") = Undef
          /\ after = Str(<<>>)
          /\ Info.hasPreviousPage = Bool(FALSE)

\* C10: hasNextPage is the pageInfo override's value when it supplies one,
\* whatever the slice length; otherwise, for a numeric first, it is true
\* exactly when the slice length is at least first, in simple mode and in
\* edges mode alike.
C10_HasNextPage ==
    HasReturned
    => /\ Override("hasNextPage") # Undef
            => Info.hasNextPage = Override("hasNextPage")
       /\ (Override("hasNextPage") = Undef /\ first.t = "number")
            => Info.hasNextPage = Bool(Len(Edges) >= first.n)

\* first = 2 on three items has given true, in simple mode
C10_Witness ==
    /\ HasReturned
    /\ SimpleMode
    /\ Override("hasNextPage") = Undef
    /\ first = Num(2)
    /\ Len(arrayItems0) = 3
    /\ Info.hasNextPage = Bool(TRUE)

\* C20: with a string cursorPropOrFn, a call whose slice is empty (no
\* items, or first = 0) returns edges = [] with startCursor and endCursor
\* undefined, in simple mode and in edges mode; and a call throws nothing
\* but the negative-first error.
C20_EmptySlice ==
    (Done /\ StringCursorProp) =>
      /\ (Len(arrayItems0) = 0 \/ first = Num(0)) =>
           /\ result.kind = "return"
           /\ Edges = <<>>
           /\ Info.startCursor = Undef
           /\ Info.endCursor = Undef
      /\ result.kind = "throw" =>
           result = Thrown("Argument \"first\" must be a non-negative integer")

\* the outcome of the same call with first replaced by f
WithFirst(f) ==
    ConnectionFromArray(baseType, arrayItems0, f, after, config,
                        pageInfoPartial, connectionProps)

\* C21: a call with first = null ends as the same call with first undefined
\* does, and when it returns its edges are one per item of the whole list.
C21_NullFirst ==
    (Done /\ first = Null) =>
      /\ result = WithFirst(Undef).out
      /\ result.kind = "return" => Len(Edges) = Len(arrayItems0)

\* what the configured cursor function returns for an item, handed to it
\* where its parameters take the item: (type, val) => ... or val => ...
FnCursor(item) ==
    LET fn == Configured("cursorPropOrFn")
    IN  ApplyCursorFn(fn, IF fn.s = FnValName THEN <<baseType, item>>
                          ELSE <<item>>)

\* C22: with a function as cursorPropOrFn, every cursor of a returned
\* connection is what the function returns for the item, unchanged: each edge's in edges mode, and startCursor and
\* endCursor, of the first and the last item of the page, in both modes.
C22_CursorFunction ==
    (HasReturned /\ ~StringCursorProp) =>
      /\ ~SimpleMode =>
           \A k \in 1..Len(Edges) :
             FnCursor(arrayItems0[k]) = Returned(Edges[k]["cursor"])
      /\ Len(Edges) > 0 =>
           /\ FnCursor(arrayItems0[1]) = Returned(Info.startCursor)
           /\ FnCursor(arrayItems0[Len(Edges)]) = Returned(Info.endCursor)

\* the outcome of the same call with no connectionProps
WithoutProps ==
    ConnectionFromArray(baseType, arrayItems0, first, after, config,
                        pageInfoPartial, Undef)

\* the keys of the connectionProps override
PropKeys == IF connectionProps = Undef THEN {} ELSE DOMAIN connectionProps.o

\* C27: the edges and the pageInfo of a returned connection are those the
\* same call computes without connectionProps, also when connectionProps
\* has keys named edges or pageInfo; every other key of connectionProps is
\* a key of the connection with its value unchanged, and the connection
\* has no further key.
C27_ComputedKeysWin ==
    HasReturned =>
      /\ Edges = WithoutProps.out.value["edges"]
      /\ Info = WithoutProps.out.value["pageInfo"]
      /\ DOMAIN result.value = PropKeys \cup {"edges", "pageInfo"}
      /\ \A q \in PropKeys \ {"edges", "pageInfo"} :
           result.value[q] = connectionProps.o[q]

\* a call handed { edges: [], pageInfo: { hasNextPage: true },
\* totalCount: 5 } as connectionProps and no first has returned
\* the edges of its two items, a pageInfo and totalCount 5
C27_Witness ==
    /\ HasReturned
    /\ PropKeys = {"edges", "pageInfo", "totalCount"}
    /\ connectionProps.o["edges"] = <<>>
    /\ Len(arrayItems0) = 2
    /\ Len(Edges) = 2
    /\ Info.hasNextPage = Bool(FALSE)
    /\ result.value["totalCount"] = Num(5)

\* the property names a list-form edgeProps lists
ListedProps ==
    IF Configured("edgeProps").t # "array" THEN {}
    ELSE {PropOf(Configured("edgeProps").keys[k]) :
            k \in 1..Len(Configured("edgeProps").keys)}

\* C29: with edgeProps given as a list of property names, every edge of a
\* returned connection carries each listed property with the value its
\* item had, and its node no longer has it.
C29_ListEdgeProps ==
    (HasReturned /\ ~SimpleMode) =>
      \A k \in 1..Len(Edges) : \A q \in ListedProps :
        /\ q \in DOMAIN Edges[k]
        /\ Edges[k][q] = Get(arrayItems0[k], q)
        /\ q \notin DOMAIN Edges[k]["node"]

\* C30: in edges mode, with a string cursorPropOrFn, every edge's cursor is
\* the cursor of the value its item's cursor property had when the item
\* was handed in, also when edgeProps names that property.
C30_CursorOfHandedItem ==
    (HasReturned /\ ~SimpleMode /\ StringCursorProp) =>
      \A k \in 1..Len(Edges) :
        Edges[k]["cursor"] = CursorFor(Get(arrayItems0[k], CursorProp))

-----------------------------------------------------------------------------
(* The transformer's runs: one connectionDirectiveTransformer call on a    *)
(* drawn schema and typeOptionsMap.  The schemas are those of the test     *)
(* 'custom prefix' with the type, the marker and the arguments of          *)
(* Query.films varied and with types of the user's own declared.           *)

PlainField(name, type) == SchemaField(name, type, <<>>, Undef, Undef)

\* id: ID! and name: String!
NodeFields ==
    <<PlainField(NameChars("id"), NonNull(Named(NameChars("ID")))),
      PlainField(NameChars("name"), NonNull(Named(NameChars("String"))))>>

\* no marker, @connection, @connection(prefix: "...")
Marker(prefix) == ObjOf([prefix |-> Str(prefix)])
NoPrefix == ObjOf(EmptyObj)

\* the types of the user's own that collide with synthesized names: a
\* PageInfo with one field, the FilmConnection of the test "doesn't add
\* types when they're added by the user" and a FilmEdge with a String cursor
DeclaredType(n) ==
    CASE n = NameChars("PageInfo") ->
           SchemaType(NameChars("PageInfo"),
                      <<PlainField(NameChars("hasNextPage"), NonNull(Named(NameChars("Boolean"))))>>)
      [] n = NameChars("Film") \o NameChars("Connection") ->
           SchemaType(NameChars("Film") \o NameChars("Connection"),
                      <<PlainField(NameChars("edges"),
                                   NonNull(List(NonNull(Named(NameChars("Film")))))),
                        PlainField(NameChars("pageInfo"), Named(NameChars("PageInfo"))),
                        PlainField(NameChars("foo"), Named(NameChars("String")))>>)
      [] OTHER ->
           SchemaType(NameChars("Film") \o NameChars("Edge"),
                      <<PlainField(NameChars("cursor"), Named(NameChars("String"))),
                        PlainField(NameChars("node"), Named(NameChars("Film")))>>)

\* the type of Query.films: Film, Film!, [Film], [Film!]!, PersonFilm!, URL!
FilmsTypes ==
    {Named(NameChars("Film")), NonNull(Named(NameChars("Film"))), List(Named(NameChars("Film"))),
     NonNull(List(NonNull(Named(NameChars("Film"))))),
     NonNull(Named(NameChars("PersonFilm"))), NonNull(Named(NameChars("URL")))}

\* the arguments Query.films declares
FilmsArgs ==
    {<<>>, <<Typed(NameChars("type"), NonNull(Named(NameChars("String"))))>>,
     <<Typed(NameChars("after"), Named(NameChars("String"))), Typed(NameChars("type"), Named(NameChars("String")))>>}

\* the schema of a draw: Person, Film, PersonFilm, URL, the user's
\* declared types and Query
SchemaOf(filmsType, filmsArgs, filmsMarker, filmsResolve, personFilmsMarker, personFilmsResolve, peopleResolve, declared) ==
    <<SchemaType(NameChars("Person"),
        NodeFields
        \o <<SchemaField(NameChars("films"), Named(NameChars("Film")), <<>>, personFilmsMarker,
                         personFilmsResolve)>>),
      SchemaType(NameChars("Film"), NodeFields),
      SchemaType(NameChars("PersonFilm"), NodeFields),
      SchemaType(NameChars("URL"), NodeFields)>>
    \o SeqOf({DeclaredType(n) : n \in declared})
    \o <<SchemaType(NameChars("Query"),
           <<SchemaField(NameChars("people"), NonNull(Named(NameChars("Person"))), <<>>, NoPrefix,
                         peopleResolve),
             SchemaField(NameChars("films"), filmsType, filmsArgs, filmsMarker,
                         filmsResolve),
             SchemaField(NameChars("person"), Named(NameChars("Person")),
                         <<Typed(NameChars("id"), NonNull(Named(NameChars("ID"))))>>, Undef,
                         Undef)>>)>>

\* the edgeProps of Film: none, { otherId: 'Int' }, the nested
\* { PersonFilm: { otherId: 'Int' } }, the two nested maps
\* { PersonFilm: { otherId: 'Int' }, StudioFilm: { name: 'Int' } } and the
\* mixed { name: 'String', PersonFilm: { otherId: 'Int' } }
FilmEdgeProps ==
    {Undef,
     EdgePropsMap(<<"otherId">>),
     Obj(<<"PersonFilm">>, [PersonFilm |-> EdgePropsMap(<<"otherId">>)]),
     Obj(<<"PersonFilm", "StudioFilm">>,
         [PersonFilm |-> EdgePropsMap(<<"otherId">>),
          StudioFilm |-> EdgePropsMap(<<"name">>)]),
     Obj(<<"name", "PersonFilm">>,
         [name |-> Str(NameChars("String")),
          PersonFilm |-> EdgePropsMap(<<"otherId">>)])}

\* { totalCount: 'Int!' }
TotalCountProps == Obj(<<"totalCount">>, [totalCount |-> Str(NameChars("Int!"))])

\* the options of one type, undefined when none is supplied
TypeOptionsOf(o) == Given(o, DOMAIN o)

\* typeOptionsMapValidator.parse(typeOptionsMap): the entries of Film and
\* of Person, each left out when the map has none
ParsedOptions(film, person) ==
    LET keys == (IF film = Undef THEN <<>> ELSE <<"Film">>)
                \o (IF person = Undef THEN <<>> ELSE <<"Person">>)
    IN  Obj(keys, [q \in {keys[k] : k \in 1..Len(keys)} |->
                     IF q = "Film" THEN film ELSE person])

FilmOptions ==
    {TypeOptionsOf(o) :
       o \in [paginationMode : {Undef, PAGINATION_MODE.SIMPLE,
                                PAGINATION_MODE.EDGES},
              edgeProps : FilmEdgeProps,
              connectionProps : {Undef, TotalCountProps}]}

PersonOptions ==
    {Undef, ObjOf([connectionProps |-> TotalCountProps])}

CodecIdle ==
    /\ typeName = Undef
    /\ id = Undef
    /\ cursor = Undef
    /\ decoded = NoResult

InitTransform ==
    /\ CodecIdle
    /\ ConnIdle
    /\ pc = "schema"
    /\ \E filmsType \in FilmsTypes, filmsArgs \in FilmsArgs,
          filmsMarker \in {Undef, NoPrefix, Marker(NameChars("StudioFilm"))},
          personFilmsMarker \in {Undef, NoPrefix,
                                 Marker(NameChars("PersonFilm"))},
          declared \in SUBSET {NameChars("PageInfo"),
                                 NameChars("Film") \o NameChars("Connection"),
                                 NameChars("Film") \o NameChars("Edge")} :
         schema = SchemaOf(filmsType, filmsArgs, filmsMarker, Undef,
                           personFilmsMarker, Undef, Undef, declared)
    /\ \E film \in FilmOptions, person \in PersonOptions :
         options = ParsedOptions(film, person)
    /\ options0 = options
    /\ transformed = NoResult
    /\ calls = <<>>

\* connectionDirectiveTransformer(schema)
ConnectionDirectiveTransformerCall ==
    /\ pc = "schema"
    /\ transformed' = ConnectionDirectiveTransformer(options, schema)
    /\ pc' = "serving"
    /\ UNCHANGED <<schema, options, options0, calls>>
    /\ UNCHANGED codecVars
    /\ UNCHANGED connVars

NextTransform == ConnectionDirectiveTransformerCall

SpecTransform == InitTransform /\ [][NextTransform]_vars

-----------------------------------------------------------------------------
(* Properties of the transformer.                                          *)

Transformed == pc = "serving" /\ transformed.kind = "return"

\* the types of a schema under a name, and the names of a list of types
TypesNamed(types, n) == {k \in 1..Len(types) : types[k].name = n}
TypeNamed(types, n) == types[CHOOSE k \in 1..Len(types) : types[k].name = n]
NamesOf(types) == {types[k].name : k \in 1..Len(types)}

\* the bindings of the last transformer call
Bindings ==
    {transformed.connectionTypes[k] : k \in 1..Len(transformed.connectionTypes)}

\* the field of a schema under a key 'Type.field'
FieldAt(types, key) ==
    LET visited == VisitFields(types)
        k == CHOOSE j \in 1..Len(visited) :
               visited[j].typeName \o NameChars(".") \o visited[j].field.name = key
    IN  visited[k].field

\* the names the transformer derives: PageInfo and, of every binding,
\* <prefix>Connection and <prefix>Edge
DerivedNames ==
    {NameChars("PageInfo")} \cup {b.prefix \o NameChars("Connection") : b \in Bindings}
                \cup {b.prefix \o NameChars("Edge") : b \in Bindings}

\* C11: a type the input schema declares under the name PageInfo,
\* <prefix>Connection or <prefix>Edge is not synthesized and is in the
\* resulting schema once, with exactly the fields the user declared; every
\* synthesized definition has a name the input schema does not have.
C11_UserTypesWin ==
    Transformed =>
      /\ \A k \in 1..Len(transformed.newTypes) :
           transformed.newTypes[k].name \notin NamesOf(schema)
      /\ \A n \in DerivedNames \cap NamesOf(schema) :
           /\ Cardinality(TypesNamed(transformed.schema, n)) = 1
           /\ TypeNamed(transformed.schema, n) = TypeNamed(schema, n)

\* the schema declared PageInfo and FilmConnection (with its field foo),
\* Query.films was tagged without a prefix: both types are as declared and
\* FilmEdge was synthesized
C11_Witness ==
    /\ Transformed
    /\ {NameChars("PageInfo"), NameChars("Film") \o NameChars("Connection")} \subseteq NamesOf(schema)
    /\ NameChars("Film") \o NameChars("Edge") \notin NamesOf(schema)
    /\ \E b \in Bindings : b.prefix = NameChars("Film") /\ b.key = NameChars("Query") \o NameChars(".") \o NameChars("films")
    /\ TypeNamed(transformed.schema, NameChars("Film") \o NameChars("Connection"))
         = DeclaredType(NameChars("Film") \o NameChars("Connection"))
    /\ TypeNamed(transformed.schema, NameChars("PageInfo")) = DeclaredType(NameChars("PageInfo"))
    /\ NameChars("Film") \o NameChars("Edge") \in NamesOf(transformed.newTypes)

\* the options of a base type as configured when the transformer ran
ConfiguredFor(tn, name) ==
    IF PropOf(Str(tn)) \notin DOMAIN options.o THEN Undef
    ELSE Get(options.o[PropOf(Str(tn))].o, name)

SimpleBinding(b) == ConfiguredFor(b.typeName, "paginationMode") = Str(NameChars("simple"))

\* the text of the type of a field of a synthesized type
FieldType(def, name) ==
    def.fields[CHOOSE k \in 1..Len(def.fields) : def.fields[k].name = name].type

\* C12: for a tagged field whose base type is configured with
\* paginationMode 'simple' no <prefix>Edge is synthesized, the resulting
\* schema has a <prefix>Edge only if the user declared one, and a
\* synthesized <prefix>Connection has edges: [<base type>!]!.
C12_SimpleNoEdge ==
    Transformed =>
      \A b \in Bindings :
        SimpleBinding(b) =>
          /\ b.prefix \o NameChars("Edge") \notin NamesOf(transformed.newTypes)
          /\ b.prefix \o NameChars("Edge") \in NamesOf(transformed.schema)
               => b.prefix \o NameChars("Edge") \in NamesOf(schema)
          /\ \A k \in 1..Len(transformed.newTypes) :
               transformed.newTypes[k].name = b.prefix \o NameChars("Connection")
                 => FieldType(transformed.newTypes[k], NameChars("edges"))
                      = NameChars("[") \o b.typeName \o NameChars("!]!")

\* Film is configured simple and Person.films is tagged with the prefix
\* PersonFilm: PersonFilmConnection has edges: [Film!]! and there is no
\* PersonFilmEdge
C12_Witness ==
    /\ Transformed
    /\ ConfiguredFor(NameChars("Film"), "paginationMode") = Str(NameChars("simple"))
    /\ \E b \in Bindings : b.prefix = NameChars("PersonFilm") /\ b.typeName = NameChars("Film")
    /\ NameChars("PersonFilm") \o NameChars("Edge") \notin NamesOf(transformed.schema)
    /\ FieldAt(transformed.schema,
               NameChars("PersonFilm") \o NameChars("Connection") \o NameChars(".") \o NameChars("edges")).type
         = NameChars("[") \o NameChars("Film") \o NameChars("!]!")

\* the prefix argument of the marker of a field, undefined when it has none
MarkerPrefix(field) == Get(field.directive.o, "prefix")

FirstArg == Typed(NameChars("first"), NameChars("Int"))
AfterArg == Typed(NameChars("after"), NameChars("ID"))

ArgNames(args) == {args[k].name : k \in 1..Len(args)}

ExtraFields(def, names) ==
    {<<def.fields[k].name, def.fields[k].type>> :
       k \in {j \in 1..Len(def.fields) : def.fields[j].name \notin names}}

\* the (name, type) lines a props map scopes to a prefix: the entries of
\* the map nested under the prefix when there is one, the top-level
\* string-valued entries otherwise
ScopedTo(props, prefix) ==
    IF props = Undef THEN {}
    ELSE LET sub == PropOf(Str(prefix))
             map == IF sub \in DOMAIN props.o /\ props.o[sub].t = "object"
                    THEN props.o[sub].o ELSE props.o
         IN  {<<NameChars(q), map[q].s>> :
                q \in {r \in DOMAIN map : map[r].t = "string"}}

\* C17: a synthesized <prefix>Edge has, beyond cursor and node, exactly the
\* edgeProps entries of its base type scoped to the prefix, and a
\* synthesized <prefix>Connection, beyond edges and pageInfo, exactly the
\* connectionProps entries of its base type: nothing nested under another
\* prefix, nothing configured for another type.
C17_ScopedProps ==
    Transformed =>
      \A b \in Bindings :
        \A k \in 1..Len(transformed.newTypes) :
          LET def == transformed.newTypes[k]
          IN  /\ (def.name = b.prefix \o NameChars("Edge") /\ ~SimpleBinding(b)) =>
                   ExtraFields(def, {NameChars("cursor"), NameChars("node")})
                     = ScopedTo(ConfiguredFor(b.typeName, "edgeProps"),
                                b.prefix)
              /\ def.name = b.prefix \o NameChars("Connection") =>
                   ExtraFields(def, {NameChars("edges"), NameChars("pageInfo")})
                     = ScopedTo(ConfiguredFor(b.typeName, "connectionProps"),
                                b.prefix)

\* the test 'custom prefix' with { PersonFilm: { otherId: 'Int' } } as the
\* edgeProps of Film and totalCount as a connectionProp of Person:
\* PersonFilmEdge has otherId, FilmEdge has not, PersonConnection has
\* totalCount, FilmConnection has not
C17_Witness ==
    /\ Transformed
    /\ ConfiguredFor(NameChars("Film"), "edgeProps")
         = Obj(<<"PersonFilm">>, [PersonFilm |-> EdgePropsMap(<<"otherId">>)])
    /\ ConfiguredFor(NameChars("Person"), "connectionProps") = TotalCountProps
    /\ {NameChars("Film") \o NameChars("Edge"), NameChars("PersonFilm") \o NameChars("Edge"), NameChars("Person") \o NameChars("Connection"),
        NameChars("Film") \o NameChars("Connection")} \subseteq NamesOf(transformed.newTypes)
    /\ ExtraFields(TypeNamed(transformed.newTypes, NameChars("PersonFilm") \o NameChars("Edge")),
                   {NameChars("cursor"), NameChars("node")}) = {<<NameChars("otherId"), NameChars("Int")>>}
    /\ ExtraFields(TypeNamed(transformed.newTypes, NameChars("Film") \o NameChars("Edge")),
                   {NameChars("cursor"), NameChars("node")}) = {}
    /\ ExtraFields(TypeNamed(transformed.newTypes, NameChars("Person") \o NameChars("Connection")),
                   {NameChars("edges"), NameChars("pageInfo")})
         = {<<NameChars("totalCount"), NameChars("Int!")>>}
    /\ ExtraFields(TypeNamed(transformed.newTypes, NameChars("Film") \o NameChars("Connection")),
                   {NameChars("edges"), NameChars("pageInfo")}) = {}

\* the named type of a type text: the text without its list brackets and
\* non-null marks
NamedTypeOf(text) ==
    SelectSeq(text, LAMBDA c : <<c>> \notin {NameChars("!"), NameChars("["),
                                            NameChars("]")})

\* C23: the typeName of every binding is the name of the named type of the
\* field it binds, under every wrapping and for every type name of the
\* schema, and the node field of every synthesized Edge names that type.
C23_BaseTypeExtraction ==
    Transformed =>
      \A b \in Bindings :
        /\ b.typeName = NamedTypeOf(FieldAt(schema, b.key).type)
        /\ \A k \in TypesNamed(transformed.newTypes,
                                b.prefix \o NameChars("Edge")) :
             \E j \in 1..Len(transformed.newTypes[k].fields) :
               transformed.newTypes[k].fields[j]
                 = Typed(NameChars("node"),
                         NamedTypeOf(FieldAt(schema, b.key).type))

\* C24: no two of the type definitions a transformer call writes have the
\* same name.
C24_SynthesisDeduplicated ==
    Transformed =>
      \A i, j \in 1..Len(transformed.newTypes) :
        transformed.newTypes[i].name = transformed.newTypes[j].name => i = j

\* the fields of the input schema with their keys
InputFields ==
    {[key |-> GetTypeKey(VisitFields(schema)[k].typeName,
                         VisitFields(schema)[k].field.name),
      field |-> VisitFields(schema)[k].field] :
       k \in 1..Len(VisitFields(schema))}

BindingsAt(key) == {b \in Bindings : b.key = key}

\* C25: a field of the input schema that has no binding leaves the
\* transform as it was: type, arguments and resolver.  A field that has a
\* binding leaves it with the type <prefix>Connection!, with the arguments
\* first and after and with the wrapper of its binding as resolver.
C25_NoPartialRewrite ==
    Transformed =>
      \A f \in InputFields :
        LET out == FieldAt(transformed.schema, f.key)
        IN  /\ BindingsAt(f.key) = {} => out = f.field
            /\ \A b \in BindingsAt(f.key) :
                 /\ out.type = GetConnectionType(b.prefix)
                 /\ {NameChars("first"), NameChars("after")}
                      \subseteq ArgNames(out.args)
                 /\ out.resolve = Wrapper(b)

\* Query.films: URL! @connection(prefix: "StudioFilm") has no binding and
\* is as it was, with its argument type: String!; Person.films has one and
\* is rewritten
C25_Witness ==
    /\ Transformed
    /\ FieldAt(schema, NameChars("Query") \o NameChars(".") \o NameChars("films")).type
         = NameChars("URL") \o NameChars("!")
    /\ FieldAt(schema, NameChars("Query") \o NameChars(".") \o NameChars("films")).directive
         = Marker(NameChars("StudioFilm"))
    /\ BindingsAt(NameChars("Query") \o NameChars(".") \o NameChars("films")) = {}
    /\ FieldAt(transformed.schema, NameChars("Query") \o NameChars(".") \o NameChars("films")).args
         = <<Typed(NameChars("type"), NameChars("String") \o NameChars("!"))>>
    /\ BindingsAt(NameChars("Person") \o NameChars(".") \o NameChars("films")) # {}
    /\ FieldAt(transformed.schema, NameChars("Person") \o NameChars(".") \o NameChars("films")).type
         = NameChars("PersonFilm") \o NameChars("Connection") \o NameChars("!")
    /\ ArgNames(FieldAt(transformed.schema,
                        NameChars("Person") \o NameChars(".") \o NameChars("films")).args)
         = {NameChars("first"), NameChars("after")}

-----------------------------------------------------------------------------
(* The wrapper's runs: the schema of the test 'custom prefix', with        *)
(* Query.films tagged @connection(prefix: "StudioFilm"), is transformed    *)
(* and its tagged fields are resolved: Query.people settles to a drawn      *)
(* value, Person.films to an array and Query.films to a connection object. *)
(* A resolution is the                                                     *)
(* wrapper's call, which awaits the original resolver, and its resumption  *)
(* once that has settled; resolutions in flight resume in any order.       *)

\* the resolutions of a run
MaxCalls == 2

\* { edges, pageInfo: { hasNextPage: false }, totalCount: 5 }
ConnectionObject(items) ==
    Obj(<<"edges", "pageInfo", "totalCount">>,
        [edges |-> Arr(items),
         pageInfo |-> ObjOf([hasNextPage |-> Bool(FALSE)]),
         totalCount |-> Num(5)])

\* what the resolver of Query.people settles to
PeopleResults ==
    {Str(NameChars("abc")), Num(7), Bool(TRUE), Undef, Null, Arr(Window(1, 1))}

\* the edgeProps of Film: top-level, or nested under the two prefixes
ResolveEdgeProps ==
    {EdgePropsMap(<<"otherId">>),
     Obj(<<"PersonFilm", "StudioFilm">>,
         [PersonFilm |-> EdgePropsMap(<<"otherId">>),
          StudioFilm |-> EdgePropsMap(<<"name">>)])}

\* the options of Person: none, or { edgeProps: { Person: { otherId: 'Int' } } },
\* nested under the prefix Query.people has
ResolvePersonOptions ==
    {Undef,
     ObjOf([edgeProps |->
              Obj(<<"Person">>, [Person |-> EdgePropsMap(<<"otherId">>)])])}

\* the arguments of a resolution
ArgChoices ==
    {[first |-> Undef, after |-> Undef], [first |-> Num(2), after |-> Num(1)]}

InitResolve ==
    /\ CodecIdle
    /\ ConnIdle
    /\ pc = "schema"
    /\ \E people \in PeopleResults :
         schema = SchemaOf(NonNull(Named(NameChars("Film"))), <<>>, Marker(NameChars("StudioFilm")),
                           ResolverOf(ConnectionObject(Window(1, 3))),
                           Marker(NameChars("PersonFilm")), ResolverOf(Arr(Window(1, 2))),
                           ResolverOf(people), {})
    /\ \E edgeProps \in ResolveEdgeProps, person \in ResolvePersonOptions :
         options = ParsedOptions(
                     TypeOptionsOf([edgeProps |-> edgeProps]), person)
    /\ options0 = options
    /\ transformed = NoResult
    /\ calls = <<>>

\* the wrapper of a tagged field is called: it calls the original resolver
\* and awaits what that settles to
WrapperCalled ==
    /\ pc = "serving"
    /\ Len(calls) < MaxCalls
    /\ \E k \in 1..Len(transformed.connectionTypes), args \in ArgChoices :
         LET key == transformed.connectionTypes[k].key
             wrapper == FieldAt(transformed.schema, key).resolve
         IN  calls' = Append(calls,
                        [binding |-> wrapper.binding,
                         args |-> args,
                         res |-> Settled(wrapper.binding.resolver),
                         state |-> "awaiting",
                         out |-> NoResult,
                         items |-> <<>>,
                         before |-> Undef])
    /\ UNCHANGED <<pc, schema, options, options0, transformed>>
    /\ UNCHANGED codecVars
    /\ UNCHANGED connVars

\* an awaiting wrapper resumes and runs to its end
WrapperResumes ==
    /\ pc = "serving"
    /\ \E k \in 1..Len(calls) :
         /\ calls[k].state = "awaiting"
         /\ LET r == WrapperResume(options, calls[k].binding, calls[k].args,
                                   calls[k].res)
            IN  /\ options' = r.options
                /\ calls' = [calls EXCEPT ![k] =
                               [@ EXCEPT !.state = "done",
                                         !.out = r.out,
                                         !.items = r.items,
                                         !.before = options]]
    /\ UNCHANGED <<pc, schema, options0, transformed>>
    /\ UNCHANGED codecVars
    /\ UNCHANGED connVars

\* connectionDirectiveTransformer(schema) is called again on the input
\* schema: the transformer of the same connectionDirective call reads the
\* options as the resolutions so far have left them
ConnectionDirectiveTransformerAgain ==
    /\ pc = "serving"
    /\ transformed' = ConnectionDirectiveTransformer(options, schema)
    /\ UNCHANGED <<pc, schema, options, options0, calls>>
    /\ UNCHANGED codecVars
    /\ UNCHANGED connVars

NextResolve ==
    \/ ConnectionDirectiveTransformerCall
    \/ WrapperCalled
    \/ WrapperResumes
    \/ ConnectionDirectiveTransformerAgain

SpecResolve == InitResolve /\ [][NextResolve]_vars

-----------------------------------------------------------------------------
(* Properties of the wrapper.                                              *)

\* the resolutions that have run to their end
DoneCalls == {k \in 1..Len(calls) : calls[k].state = "done"}

ResponseError == Thrown("Connection responses must be an array or object")

\* C15: a resolution whose original resolver settled to a string, a
\* number, a boolean or undefined fails with 'Connection responses must be
\* an array or object' and returns no connection.
C15_NonObjectResult ==
    \A k \in DoneCalls :
      calls[k].res.t \in {"string", "number", "boolean", "undefined"}
        => calls[k].out = ResponseError

\* the test 'invalid resolver response': Query.people has settled to the
\* string 'abc' and the wrapper has thrown, with options given for Person
C15_Witness ==
    \E k \in DoneCalls :
      /\ calls[k].res = Str(NameChars("abc"))
      /\ calls[k].binding.typeName = NameChars("Person")
      /\ "Person" \in DOMAIN options0.o
      /\ calls[k].out = ResponseError

\* the connection a resolution returned, and the item list it was handed
Connection(k) == calls[k].out.value
HandedItems(k) ==
    IF calls[k].res.t = "array" THEN calls[k].res.keys
    ELSE calls[k].res.o["edges"].keys

\* the number of items a page of the resolution's first holds
PageOf(k) ==
    IF calls[k].args.first = Undef
         \/ calls[k].args.first.n > Len(HandedItems(k))
    THEN Len(HandedItems(k))
    ELSE calls[k].args.first.n

\* C16: a resolution that returns a connection returns the windowing of
\* the item list it was handed: the array itself, with the inferred
\* hasNextPage and hasPreviousPage and no key but edges and pageInfo; or
\* the edges key of the object, with the pageInfo key as the override and
\* every other own key of the object as a top-level key with its value.
C16_Dispatch ==
    \A k \in DoneCalls :
      calls[k].out.kind = "return" =>
        LET res == calls[k].res
            args == calls[k].args
            others == IF res.t = "array" THEN {}
                      ELSE (DOMAIN res.o) \ {"edges", "pageInfo"}
        IN  /\ DOMAIN Connection(k) = {"edges", "pageInfo"} \cup others
            /\ \A q \in others : Connection(k)[q] = res.o[q]
            /\ Len(Connection(k)["edges"]) = PageOf(k)
            /\ \A j \in 1..PageOf(k) :
                 Connection(k)["edges"][j]["node"]["id"] = HandedItems(k)[j]["id"]
            /\ Connection(k)["pageInfo"].hasPreviousPage
                 = Bool(args.after \notin {Undef, Null, Str(<<>>), Num(0)})
            /\ Connection(k)["pageInfo"].hasNextPage
                 = (IF res.t = "object" /\ "pageInfo" \in DOMAIN res.o
                       /\ "hasNextPage" \in DOMAIN res.o["pageInfo"].o
                    THEN res.o["pageInfo"].o["hasNextPage"]
                    ELSE Bool(args.first # Undef
                              /\ Len(HandedItems(k)) >= args.first.n))

\* Person.films has settled to an array of two and Query.films to
\* { edges, pageInfo: { hasNextPage: false }, totalCount: 5 } of three, both
\* resolved with first: 2: the first has hasNextPage true and no other key,
\* the second hasNextPage false and totalCount 5
C16_Witness ==
    /\ \E k \in DoneCalls :
         /\ calls[k].res = Arr(Window(1, 2))
         /\ calls[k].args.first = Num(2)
         /\ calls[k].out.kind = "return"
         /\ DOMAIN Connection(k) = {"edges", "pageInfo"}
         /\ Connection(k)["pageInfo"].hasNextPage = Bool(TRUE)
    /\ \E k \in DoneCalls :
         /\ calls[k].res = ConnectionObject(Window(1, 3))
         /\ calls[k].args.first = Num(2)
         /\ calls[k].out.kind = "return"
         /\ Connection(k)["totalCount"] = Num(5)
         /\ Len(Connection(k)["edges"]) = 2
         /\ Connection(k)["pageInfo"].hasNextPage = Bool(FALSE)

\* the edgeProps map the configuration nests under a prefix for a base
\* type, undefined when it nests none
NestedUnder(tn, prefix) ==
    LET typeOptions == Get(options0.o, PropOf(Str(tn)))
        edgeProps == IF typeOptions = Undef THEN Undef
                     ELSE Get(typeOptions.o, "edgeProps")
    IN  IF edgeProps = Undef THEN Undef
        ELSE Get(edgeProps.o, PropOf(Str(prefix)))

\* C18: a resolution of a tagged field whose base type's configuration
\* nests an edgeProps map under the field's prefix relocates, on every
\* edge, exactly the properties that map names, whichever resolutions of
\* other fields of the base type came before it.
C18_PrefixScopedEdgeProps ==
    \A k \in DoneCalls :
      LET own == NestedUnder(calls[k].binding.typeName, calls[k].binding.prefix)
      IN  (calls[k].out.kind = "return" /\ own # Undef) =>
            \A j \in 1..Len(Connection(k)["edges"]) :
              LET edge == Connection(k)["edges"][j]
              IN  /\ (DOMAIN edge) \ {"cursor", "node"} = DOMAIN own.o
                  /\ \A q \in DOMAIN own.o :
                       /\ edge[q] = HandedItems(k)[j][q]
                       /\ q \notin DOMAIN edge["node"]

\* C19: a resolution whose original resolver settled to null fails with
\* 'Connection responses must be an array or object'.
C19_NullResult ==
    \A k \in DoneCalls :
      calls[k].res = Null => calls[k].out = ResponseError

\* C26: a resolution that fails with 'Connection responses must be an array
\* or object' leaves the options as they were when it resumed.
C26_FailureBeforeNarrowing ==
    [][\A k \in 1..Len(calls) :
         (calls[k].state = "awaiting" /\ calls'[k].state = "done"
            /\ calls'[k].out = ResponseError)
         => options' = options]_vars

\* C28: a transformer call on the input schema made after the first one,
\* before or after any resolutions, writes the type definitions the first
\* one wrote.
C28_StatelessTransform ==
    [][(pc = "serving" /\ pc' = "serving")
         => transformed'.newTypes = transformed.newTypes]_vars

====
